---- MODULE Spec2Model ----
(***************************************************************************)
(* State-machine model of server.js (kihvisionss/IGamble): the socket      *)
(* registry, the coin ledger, giveaways and their interval timer,          *)
(* blackjack and poker.  One action per socket.io handler or timer         *)
(* callback; node runs each handler to completion, so a handler is one     *)
(* atomic step.  Math.random() and the shuffled deck are nondeterministic  *)
(* choices; an exception that escapes a handler ends the process           *)
(* (crashed).                                                              *)
(***************************************************************************)
EXTENDS Integers, Sequences, FiniteSets, TLC

VARIABLES
  users,      \* users: username -> balance                       (line 24)
  conns,      \* socket ids with a live connection                (line 71)
  sockets,    \* sockets: socket.id -> username                   (line 64)
  online,     \* online: username -> {id, username}, in key order (line 65)
  giveaways,  \* giveaways: array of {id, host, amount, entrants, createdAt}
  now,        \* Date.now()
  bjStates,   \* per connection closure: username -> blackjack state (line 181)
  rounds,     \* poker rounds played so far
  crashed,    \* an exception escaped a handler or the timer callback
  ev,         \* the last event handled and what it emitted
  trades,     \* per connection closure: id -> {id, from, to, status} (line 137)
  tradeCounter, \* per connection closure: the next trade id      (line 136)
  maxGid,     \* history: the largest id a giveaway was created with
  bcast       \* the "state" message the last event emitted, if any (line 68)

vars == <<users, conns, sockets, online, giveaways, now, bjStates, rounds, crashed, ev,
          trades, tradeCounter, maxGid, bcast>>

(* ------------------------------ bounds --------------------------------- *)
NumConns == 2
MaxInitBalance == 1
MaxBalance == 3
MaxAmount == 1
MaxBet == 1

Conns == 1..NumConns
Names == {"alice", "bob"}
Guest == "guest"
Amounts == (0 - MaxAmount)..MaxAmount
Bets == (0 - MaxBet)..MaxBet

(* --------------------------- JS object helpers ------------------------- *)
SeqRange(q) == {q[i] : i \in DOMAIN q}
EmptyMap == [k \in {} |-> 0]
Has(m, k) == k \in DOMAIN m
Put(m, k, v) == [x \in (DOMAIN m) \cup {k} |-> IF x = k THEN v ELSE m[x]]
Del(m, k) == [x \in (DOMAIN m) \ {k} |-> m[x]]

RECURSIVE SumOver(_, _)
SumOver(m, S) ==
  IF S = {} THEN 0
  ELSE LET k == CHOOSE k \in S : TRUE IN m[k] + SumOver(m, S \ {k})
TotalBalance(m) == SumOver(m, DOMAIN m)

\* Number(x) of a payload field: a number, or NaN when the field is missing
\* or is not numeric.
Num(v) == [nan |-> FALSE, v |-> v]
NaN == [nan |-> TRUE, v |-> 0]
AmountInputs == {NaN} \cup {Num(v) : v \in Amounts}
\* (!amt || amt <= 0)
InvalidAmt(a) == a.nan \/ a.v = 0 \/ a.v <= 0

\* every balance the model lets a handler produce stays within the cap
Capped(m) == \A u \in DOMAIN m : m[u] <= MaxBalance /\ m[u] >= 0 - MaxBalance

(* ------------------------------ broadcast ------------------------------ *)
\* the payload of io.emit("state", ...): the online players with their
\* balances, in Object.values(online) order, and the giveaway queue
Snapshot(us, on, gs) ==
  [players |-> [i \in DOMAIN on |->
                  [username |-> on[i].username, balance |-> us[on[i].username]]],
   giveaways |-> gs]

\* the handler ends with broadcastState() (sent), or returns without it
Emit(sent) ==
  bcast' = IF sent
           THEN [sent |-> TRUE, state |-> Snapshot(users', online', giveaways')]
           ELSE [sent |-> FALSE]

(* ------------------------------ registry ------------------------------- *)
OnlineNames == {online[i].username : i \in DOMAIN online}
OnlineIndex(u) == CHOOSE i \in DOMAIN online : online[i].username = u
\* online[username] = {id, username}: an existing key keeps its place in
\* Object.keys order, a new key goes last
OnlineSet(o, u, id) ==
  IF \E i \in DOMAIN o : o[i].username = u
  THEN [i \in DOMAIN o |-> IF o[i].username = u THEN [id |-> id, username |-> u] ELSE o[i]]
  ELSE Append(o, [id |-> id, username |-> u])
\* delete online[username]
OnlineDelete(o, u) == SelectSeq(o, LAMBDA e : e.username # u)

\* io.on("connection"): a new socket with a fresh handler closure
Connect(c) ==
  /\ ~crashed
  /\ c \notin conns
  /\ conns' = conns \cup {c}
  /\ bjStates' = [bjStates EXCEPT ![c] = EmptyMap]
  /\ trades' = [trades EXCEPT ![c] = EmptyMap]
  /\ tradeCounter' = [tradeCounter EXCEPT ![c] = 1]
  /\ ev' = [op |-> "connect"]
  /\ UNCHANGED <<users, sockets, online, giveaways, now, rounds, crashed, maxGid>>
  /\ Emit(FALSE)

\* socket.on("auth"): the token decodes to a username
Auth(c, username) ==
  /\ ~crashed
  /\ c \in conns
  /\ ev' = [op |-> "auth"]
  /\ IF Has(users, username)
     THEN /\ sockets' = Put(sockets, c, username)
          /\ online' = OnlineSet(online, username, c)
     ELSE UNCHANGED <<sockets, online>>
  /\ UNCHANGED <<users, conns, giveaways, now, bjStates, rounds, crashed>>
  /\ UNCHANGED <<trades, tradeCounter, maxGid>>
  /\ Emit(Has(users, username))

\* socket.on("disconnect")
Disconnect(c) ==
  /\ ~crashed
  /\ c \in conns
  /\ conns' = conns \ {c}
  /\ online' = IF Has(sockets, c) THEN OnlineDelete(online, sockets[c]) ELSE online
  /\ sockets' = Del(sockets, c)
  /\ ev' = [op |-> "disconnect"]
  /\ UNCHANGED <<users, giveaways, now, bjStates, rounds, crashed>>
  /\ UNCHANGED <<trades, tradeCounter, maxGid>>
  /\ Emit(TRUE)

(* ------------------------------- ledger -------------------------------- *)
SendCoinsRejected(c, to, amount) ==
  \/ ~Has(sockets, c)
  \/ InvalidAmt(amount)
  \/ ~Has(users, to)
  \/ users[sockets[c]] < amount.v

\* mutant: the credit is computed from the balance read before the debit
SendCoinsStaleCredit(m, from, to, amt) ==
  [u \in DOMAIN m |-> IF u = to THEN m[u] + amt
                      ELSE IF u = from THEN m[u] - amt ELSE m[u]]

\* users[from].balance -= amt; users[to].balance = (users[to].balance||0) + amt
SendCoinsDebitCredit(m, from, to, amt) ==
  LET debited == [m EXCEPT ![from] = m[from] - amt]
  IN  [debited EXCEPT ![to] = debited[to] + amt]

\* socket.on("send_coins")
SendCoins(c, to, amount) ==
  /\ ~crashed
  /\ c \in conns
  /\ LET rejected == SendCoinsRejected(c, to, amount)
     IN /\ users' = IF rejected THEN users
                    ELSE SendCoinsDebitCredit(users, sockets[c], to, amount.v)
        /\ ev' = [op |-> "send_coins", c |-> c, to |-> to, amount |-> amount,
                  ok |-> ~rejected]
  /\ Capped(users')
  /\ UNCHANGED <<conns, sockets, online, giveaways, now, bjStates, rounds, crashed>>
  /\ UNCHANGED <<trades, tradeCounter, maxGid>>
  /\ Emit(ev'.ok)

(* ------------------------------- trades -------------------------------- *)
MaxTrades == 2
TradeIds == 1..MaxTrades

TradeStartRejected(c, to) == ~Has(sockets, c) \/ ~Has(users, to)

\* socket.on("trade_start"): const id = tradeCounter++ in the closure of
\* this connection
TradeStart(c, to) ==
  /\ ~crashed
  /\ c \in conns
  /\ IF TradeStartRejected(c, to)
     THEN /\ ev' = [op |-> "trade_start", c |-> c, ok |-> FALSE, id |-> 0]
          /\ UNCHANGED <<trades, tradeCounter>>
     ELSE LET id == tradeCounter[c]
          IN /\ id <= MaxTrades
             /\ tradeCounter' = [tradeCounter EXCEPT ![c] = id + 1]
             /\ trades' = [trades EXCEPT ![c] = Put(trades[c], id,
                   [id |-> id, from |-> sockets[c], to |-> to, status |-> "pending"])]
             /\ ev' = [op |-> "trade_start", c |-> c, ok |-> TRUE, id |-> id]
  /\ UNCHANGED <<users, conns, sockets, online, giveaways, now, bjStates, rounds,
                 crashed, maxGid>>
  /\ Emit(FALSE)

\* socket.on("trade_accept")
TradeAccept(c, id) ==
  /\ ~crashed
  /\ c \in conns
  /\ IF ~Has(trades[c], id) \/ trades[c][id].status # "pending"
     THEN /\ ev' = [op |-> "trade_accept", c |-> c, id |-> id, notice |-> FALSE]
          /\ UNCHANGED trades
     ELSE /\ trades' = [trades EXCEPT ![c][id].status = "accepted"]
          /\ ev' = [op |-> "trade_accept", c |-> c, id |-> id, notice |-> TRUE]
  /\ UNCHANGED <<users, conns, sockets, online, giveaways, now, bjStates, rounds,
                 crashed, tradeCounter, maxGid>>
  /\ Emit(FALSE)

\* socket.on("trade_decline")
TradeDecline(c, id) ==
  /\ ~crashed
  /\ c \in conns
  /\ IF ~Has(trades[c], id)
     THEN /\ ev' = [op |-> "trade_decline", c |-> c, id |-> id, notice |-> FALSE]
          /\ UNCHANGED trades
     ELSE /\ trades' = [trades EXCEPT ![c][id].status = "declined"]
          /\ ev' = [op |-> "trade_decline", c |-> c, id |-> id, notice |-> TRUE]
  /\ UNCHANGED <<users, conns, sockets, online, giveaways, now, bjStates, rounds,
                 crashed, tradeCounter, maxGid>>
  /\ Emit(FALSE)

(* ------------------------------ giveaways ------------------------------ *)
CloseAfterMs == 45000
CloseAtEntrants == 5
ClockStep == 45000
MaxClockSteps == 2
MaxQueue == 2
MaxGiveawayId == 2

\* sockets[socket.id] || "guest"
From(c) == IF Has(sockets, c) THEN sockets[c] ELSE Guest

\* the chat texts: "/giveaway <amt>", "/enter", anything else
ChatTexts ==
  {[kind |-> "giveaway", amt |-> a] : a \in AmountInputs}
    \cup {[kind |-> "enter", amt |-> NaN], [kind |-> "text", amt |-> NaN]}
\* and a chat payload that has no text field
ChatInputs == ChatTexts \cup {[kind |-> "missing", amt |-> NaN]}

GiveawayRejected(c, amt) ==
  \/ InvalidAmt(amt)
  \/ ~Has(users, From(c))
  \/ users[From(c)] < amt.v

\* giveaways.length ? giveaways[giveaways.length-1].id+1 : 1
NextGiveawayId(q) == IF Len(q) # 0 THEN q[Len(q)].id + 1 ELSE 1

\* mutant: the host is not charged
GiveawayNoDebit(m, host, amt) == m

\* users[from].balance -= amt
GiveawayDebit(m, host, amt) == [m EXCEPT ![host] = m[host] - amt]

\* text.startsWith("/giveaway ")
ChatGiveaway(c, amt) ==
  IF GiveawayRejected(c, amt)
  THEN /\ ev' = [op |-> "chat", kind |-> "giveaway", from |-> From(c), ok |-> FALSE]
       /\ UNCHANGED <<users, giveaways, maxGid>>
  ELSE /\ users' = GiveawayDebit(users, From(c), amt.v)
       /\ maxGid' = IF NextGiveawayId(giveaways) > maxGid
                    THEN NextGiveawayId(giveaways) ELSE maxGid
       /\ giveaways' = Append(giveaways,
            [id |-> NextGiveawayId(giveaways), host |-> From(c), amount |-> amt.v,
             entrants |-> <<>>, createdAt |-> now])
       /\ Len(giveaways') <= MaxQueue
       /\ NextGiveawayId(giveaways) <= MaxGiveawayId
       /\ ev' = [op |-> "chat", kind |-> "giveaway", from |-> From(c), ok |-> TRUE]

\* the giveaway /enter adds to: giveaways[giveaways.length-1]
EnterTarget(q) == Len(q)

EnterRejected(c) ==
  \/ Len(giveaways) = 0
  \/ From(c) \in SeqRange(giveaways[EnterTarget(giveaways)].entrants)

\* text.trim() === "/enter"
ChatEnter(c) ==
  IF EnterRejected(c)
  THEN /\ ev' = [op |-> "chat", kind |-> "enter", from |-> From(c), ok |-> FALSE]
       /\ UNCHANGED <<users, giveaways, maxGid>>
  ELSE /\ giveaways' = [giveaways EXCEPT ![EnterTarget(giveaways)].entrants =
                          Append(@, From(c))]
       /\ ev' = [op |-> "chat", kind |-> "enter", from |-> From(c), ok |-> TRUE]
       /\ UNCHANGED <<users, maxGid>>

\* socket.on("chat"): with text undefined, text.startsWith throws
Chat(c, text) ==
  /\ ~crashed
  /\ c \in conns
  /\ IF text.kind = "missing"
     THEN /\ ev' = [op |-> "chat", kind |-> "missing", from |-> From(c), ok |-> FALSE]
          /\ UNCHANGED <<users, giveaways, maxGid>>
     ELSE IF text.kind = "giveaway" THEN ChatGiveaway(c, text.amt)
     ELSE IF text.kind = "enter" THEN ChatEnter(c)
     ELSE /\ ev' = [op |-> "chat", kind |-> "text", from |-> From(c), ok |-> TRUE]
          /\ UNCHANGED <<users, giveaways, maxGid>>
  /\ crashed' = (text.kind = "missing")
  /\ UNCHANGED <<conns, sockets, online, now, bjStates, rounds, trades, tradeCounter>>
  /\ Emit(ev'.kind = "giveaway" /\ ev'.ok)

\* Date.now() - g.createdAt > 45000 || g.entrants.length >= 5
Closing(g, t) == t - g.createdAt > CloseAfterMs \/ Len(g.entrants) >= CloseAtEntrants

\* who the interval callback credits: the host of a giveaway nobody entered,
\* else g.entrants[Math.floor(Math.random()*g.entrants.length)]
Payees(g) == IF Len(g.entrants) = 0 THEN {g.host} ELSE SeqRange(g.entrants)

\* the setInterval callback (every 5000 ms)
Tick ==
  /\ ~crashed
  /\ IF Len(giveaways) = 0 \/ ~Closing(giveaways[1], now)
     THEN /\ ev' = [op |-> "tick", closed |-> FALSE]
          /\ UNCHANGED <<users, giveaways, crashed>>
     ELSE \E w \in Payees(giveaways[1]) :
            IF ~Has(users, w)
            THEN \* users[w] is undefined: reading .balance throws
                 /\ crashed' = TRUE
                 /\ ev' = [op |-> "tick", closed |-> FALSE]
                 /\ UNCHANGED <<users, giveaways>>
            ELSE /\ users' = [users EXCEPT ![w] = users[w] + giveaways[1].amount]
                 /\ giveaways' = Tail(giveaways)
                 /\ ev' = [op |-> "tick", closed |-> TRUE]
                 /\ UNCHANGED crashed
  /\ UNCHANGED <<conns, sockets, online, now, bjStates, rounds>>
  /\ UNCHANGED <<trades, tradeCounter, maxGid>>
  /\ Emit(ev'.closed)

\* time passes between events
AdvanceClock ==
  /\ ~crashed
  /\ now < ClockStep * MaxClockSteps
  /\ now' = now + ClockStep
  /\ ev' = [op |-> "clock"]
  /\ UNCHANGED <<users, conns, sockets, online, giveaways, bjStates, rounds, crashed>>
  /\ UNCHANGED <<trades, tradeCounter, maxGid>>
  /\ Emit(FALSE)

(* ------------------------------ cards ---------------------------------- *)
\* deck() builds the 52 cards of ranks x suits and shuffles them (lines
\* 163-170).  CardOrder lists the first cards of one fixed enumeration of the
\* 52; deck(n) is the model's deck: its first n cards.  The shuffle makes
\* every order possible, so a pop() is a choice among the cards left.
CardOrder ==
  << [r |-> "K", s |-> "S"], [r |-> "K", s |-> "H"], [r |-> "9", s |-> "S"],
     [r |-> "9", s |-> "H"], [r |-> "2", s |-> "S"], [r |-> "Q", s |-> "S"],
     [r |-> "Q", s |-> "H"], [r |-> "2", s |-> "H"], [r |-> "J", s |-> "S"],
     [r |-> "J", s |-> "H"], [r |-> "10", s |-> "S"], [r |-> "A", s |-> "S"],
     [r |-> "A", s |-> "H"], [r |-> "10", s |-> "H"], [r |-> "3", s |-> "S"],
     [r |-> "3", s |-> "H"] >>
deck(n) == {CardOrder[i] : i \in 1..n}

BjDeckSize == 6

\* [d.pop(), d.pop()]: any two of the cards left
TwoOf(d) == {{a, b} : a \in d, b \in d} \ {{a} : a \in d}

\* Number(c.r) for the ranks '2'..'10'
RankNumber(r) ==
  CASE r = "2" -> 2 [] r = "3" -> 3 [] r = "4" -> 4 [] r = "5" -> 5
    [] r = "6" -> 6 [] r = "7" -> 7 [] r = "8" -> 8 [] r = "9" -> 9
    [] r = "10" -> 10

CardPoints(c) ==
  IF c.r = "A" THEN 11
  ELSE IF c.r \in {"K", "Q", "J"} THEN 10
  ELSE RankNumber(c.r)

RECURSIVE SumPoints(_)
SumPoints(h) ==
  IF h = {} THEN 0
  ELSE LET c == CHOOSE c \in h : TRUE IN CardPoints(c) + SumPoints(h \ {c})

\* while(sum>21 && aces>0){ sum-=10; aces--; }
RECURSIVE SoftenAces(_, _)
SoftenAces(sum, aces) ==
  IF sum > 21 /\ aces > 0 THEN SoftenAces(sum - 10, aces - 1) ELSE sum

valueHand(h) == SoftenAces(SumPoints(h), Cardinality({c \in h : c.r = "A"}))

(* ----------------------------- blackjack ------------------------------- *)
MaxHands == 2

HandCount(bj) == SumOver([c \in Conns |-> Cardinality(DOMAIN bj[c])], Conns)

BjStartRejected(c, bet) ==
  \/ ~Has(sockets, c)
  \/ ~Has(users, sockets[c])
  \/ users[sockets[c]] < bet

\* socket.on("bj_start"), d the cards deck() shuffles
BjStartFrom(c, bet, d) ==
  /\ ~crashed
  /\ c \in conns
  /\ ev' = [op |-> "bj_start", c |-> c, bet |-> bet, ok |-> ~BjStartRejected(c, bet)]
  /\ IF BjStartRejected(c, bet)
     THEN UNCHANGED <<users, bjStates>>
     ELSE LET user == sockets[c]
          IN /\ users' = [users EXCEPT ![user] = users[user] - bet]
             /\ \E player \in TwoOf(d) :
                  \E dealer \in TwoOf(d \ player) :
                       /\ bjStates' = [bjStates EXCEPT ![c] = Put(bjStates[c], user,
                            [deck |-> (d \ player) \ dealer, player |-> player,
                             dealer |-> dealer, bet |-> bet, done |-> FALSE])]
  /\ Capped(users')
  /\ HandCount(bjStates') <= MaxHands
  /\ UNCHANGED <<conns, sockets, online, giveaways, now, rounds, crashed>>
  /\ UNCHANGED <<trades, tradeCounter, maxGid>>
  /\ Emit(ev'.ok)

BjStart(c, bet) == BjStartFrom(c, bet, deck(BjDeckSize))

\* while(valueHand(s.dealer) < 17) s.dealer.push(s.deck.pop()): every final
\* dealer hand the shuffle allows; exhausted when pop() returns undefined and
\* valueHand then throws on it
RECURSIVE DealerDraws(_, _)
DealerDraws(dealer, d) ==
  IF valueHand(dealer) >= 17 THEN {[dealer |-> dealer, exhausted |-> FALSE]}
  ELSE IF d = {} THEN {[dealer |-> dealer, exhausted |-> TRUE]}
  ELSE UNION {DealerDraws(dealer \cup {card}, d \ {card}) : card \in d}

\* mutant: a push pays like a win
StandCreditPushWins(pv, dv, bet) ==
  IF pv > 21 THEN 0
  ELSE IF dv > 21 \/ pv >= dv THEN bet * 2
  ELSE 0

\* the credit of the stand branch (lines 213-216)
StandCredit(pv, dv, bet) ==
  IF pv > 21 THEN 0
  ELSE IF dv > 21 \/ pv > dv THEN bet * 2
  ELSE IF pv = dv THEN bet
  ELSE 0

BjIgnored(c) == ~Has(sockets, c) \/ ~Has(bjStates[c], sockets[c])

\* bj_action, action === "hit"
BjHit(c) ==
  LET user == sockets[c]
      s == bjStates[c][user]
  IN IF s.deck = {}
     THEN /\ crashed' = TRUE
          /\ ev' = [op |-> "bj_action", action |-> "hit", c |-> c, ok |-> FALSE]
          /\ UNCHANGED <<users, bjStates>>
     ELSE \E card \in s.deck :
            LET player == s.player \cup {card}
            IN /\ bjStates' = [bjStates EXCEPT ![c][user] =
                     [s EXCEPT !.deck = s.deck \ {card}, !.player = player,
                               !.done = IF valueHand(player) > 21 THEN TRUE ELSE s.done]]
               /\ ev' = [op |-> "bj_action", action |-> "hit", c |-> c, ok |-> TRUE]
               /\ UNCHANGED <<users, crashed>>

\* bj_action, action === "stand"
BjStand(c) ==
  LET user == sockets[c]
      s == bjStates[c][user]
  IN \E o \in DealerDraws(s.dealer, s.deck) :
       IF o.exhausted
       THEN /\ crashed' = TRUE
            /\ ev' = [op |-> "bj_action", action |-> "stand", c |-> c, ok |-> FALSE]
            /\ UNCHANGED <<users, bjStates>>
       ELSE /\ users' = [users EXCEPT ![user] =
                           users[user] + StandCredit(valueHand(s.player), valueHand(o.dealer), s.bet)]
            /\ bjStates' = [bjStates EXCEPT ![c] = Del(bjStates[c], user)]
            /\ ev' = [op |-> "bj_action", action |-> "stand", c |-> c, ok |-> TRUE,
                      user |-> user, hand |-> s, dealer |-> o.dealer]
            /\ UNCHANGED crashed

Actions == {"hit", "stand", "double"}

\* socket.on("bj_action")
BjAction(c, action) ==
  /\ ~crashed
  /\ c \in conns
  /\ IF BjIgnored(c) \/ action \notin {"hit", "stand"}
     THEN /\ ev' = [op |-> "bj_action", action |-> action, c |-> c, ok |-> FALSE]
          /\ UNCHANGED <<users, bjStates, crashed>>
     ELSE IF action = "hit" THEN BjHit(c) ELSE BjStand(c)
  /\ Capped(users')
  /\ UNCHANGED <<conns, sockets, online, giveaways, now, rounds>>
  /\ UNCHANGED <<trades, tradeCounter, maxGid>>
  /\ Emit(ev'.action = "stand" /\ ev'.ok)

(* ------------------------------- poker --------------------------------- *)
PokerDeckSize == 10
MaxRounds == 1

\* order / map of rankHand and pairValues: '2'..'10' numeric, J=11 .. A=14
order(r) ==
  CASE r = "J" -> 11 [] r = "Q" -> 12 [] r = "K" -> 13 [] r = "A" -> 14
    [] OTHER -> RankNumber(r)

\* a score entry is a JS number or a JS string (an object key)
JsNum(n) == [str |-> FALSE, n |-> n, s |-> ""]
JsStr(s) == [str |-> TRUE, n |-> 0, s |-> s]
NumsOf(seq) == [i \in DOMAIN seq |-> JsNum(seq[i])]
StrsOf(seq) == [i \in DOMAIN seq |-> JsStr(seq[i])]

\* the rank strings in the order of JS string comparison (UTF-16 code units)
StringOrder == <<"10", "2", "3", "4", "5", "6", "7", "8", "9", "A", "J", "K", "Q">>
StringPos(s) == CHOOSE i \in DOMAIN StringOrder : StringOrder[i] = s
\* Number(s) of a rank string is NaN for the letters
IsNumeric(s) == s \notin {"A", "J", "K", "Q"}
\* a > b as JS evaluates it
JsGreater(a, b) ==
  IF a.str /\ b.str THEN StringPos(a.s) > StringPos(b.s)
  ELSE IF ~a.str /\ ~b.str THEN a.n > b.n
  ELSE IF a.str THEN IsNumeric(a.s) /\ RankNumber(a.s) > b.n
  ELSE IsNumeric(b.s) /\ a.n > RankNumber(b.s)

\* hand.map(c=>order[c.r]).sort((a,b)=>b-a)
RECURSIVE ValsDesc(_)
ValsDesc(h) ==
  IF h = {} THEN <<>>
  ELSE LET c == CHOOSE c \in h : \A d \in h : order(c.r) >= order(d.r)
       IN <<order(c.r)>> \o ValsDesc(h \ {c})

counts(h) == [r \in {c.r : c \in h} |-> Cardinality({c \in h : c.r = r})]

\* Object.values(counts).sort((a,b)=>b-a)
RECURSIVE FreqDesc(_, _)
FreqDesc(cnt, keys) ==
  IF keys = {} THEN <<>>
  ELSE LET k == CHOOSE k \in keys : \A j \in keys : cnt[k] >= cnt[j]
       IN <<cnt[k]>> \o FreqDesc(cnt, keys \ {k})
\* freq[i] with i counted from 0; undefined equals no number
FreqAt(freq, i) == IF i + 1 <= Len(freq) THEN freq[i + 1] ELSE 0

\* getKeyByValue(counts, val): in a 5-card hand at most one key has count val
\* when the calling branch is taken
getKeyByValue(cnt, val) == CHOOSE k \in DOMAIN cnt : cnt[k] = val

\* pairValues(counts): the keys of count 2, sorted by map[] descending
RECURSIVE KeysDesc(_)
KeysDesc(keys) ==
  IF keys = {} THEN <<>>
  ELSE LET k == CHOOSE k \in keys : \A j \in keys : order(k) >= order(j)
       IN <<k>> \o KeysDesc(keys \ {k})
pairValues(cnt) == KeysDesc({k \in DOMAIN cnt : cnt[k] = 2})

rankHand(hand) ==
  LET vals == ValsDesc(hand)
      cnt == counts(hand)
      isFlush == Cardinality({c.s : c \in hand}) = 1
      isStraight == vals[1] - vals[5] = 4 /\ Cardinality({vals[i] : i \in 1..5}) = 5
      freq == FreqDesc(cnt, DOMAIN cnt)
      f0 == FreqAt(freq, 0)
      f1 == FreqAt(freq, 1)
  IN IF isStraight /\ isFlush
       THEN [name |-> "Straight Flush", score |-> <<JsNum(9), JsNum(vals[1])>>, vals |-> vals]
     ELSE IF f0 = 4
       THEN [name |-> "Four of a Kind", score |-> <<JsNum(8), JsStr(getKeyByValue(cnt, 4))>>, vals |-> vals]
     ELSE IF f0 = 3 /\ f1 = 2
       THEN [name |-> "Full House", score |-> <<JsNum(7), JsStr(getKeyByValue(cnt, 3))>>, vals |-> vals]
     ELSE IF isFlush
       THEN [name |-> "Flush", score |-> <<JsNum(6)>> \o NumsOf(vals), vals |-> vals]
     ELSE IF isStraight
       THEN [name |-> "Straight", score |-> <<JsNum(5), JsNum(vals[1])>>, vals |-> vals]
     ELSE IF f0 = 3
       THEN [name |-> "Three of a Kind", score |-> <<JsNum(4), JsStr(getKeyByValue(cnt, 3))>>, vals |-> vals]
     ELSE IF f0 = 2 /\ f1 = 2
       THEN [name |-> "Two Pair", score |-> <<JsNum(3)>> \o StrsOf(pairValues(cnt)), vals |-> vals]
     ELSE IF f0 = 2
       THEN [name |-> "One Pair", score |-> <<JsNum(2), JsStr(getKeyByValue(cnt, 2))>>, vals |-> vals]
     ELSE [name |-> "High Card", score |-> <<JsNum(1)>> \o NumsOf(vals), vals |-> vals]

\* a.score[i]||0, with i counted from 0
ScoreAt(score, i) == IF i + 1 <= Len(score) THEN score[i + 1] ELSE JsNum(0)

RECURSIVE CompareFrom(_, _, _)
CompareFrom(a, b, i) ==
  IF i >= (IF Len(a.score) >= Len(b.score) THEN Len(a.score) ELSE Len(b.score)) THEN 0
  ELSE IF JsGreater(ScoreAt(a.score, i), ScoreAt(b.score, i)) THEN 1
  ELSE IF JsGreater(ScoreAt(b.score, i), ScoreAt(a.score, i)) THEN 0 - 1
  ELSE CompareFrom(a, b, i + 1)
compareRank(a, b) == CompareFrom(a, b, 0)

\* results.sort((a,b)=> compareRank(b.rank, a.rank)): Array.prototype.sort is
\* stable, so an entry goes behind every earlier entry it does not beat
InsertResult(sorted, x) ==
  LET before == {i \in DOMAIN sorted : compareRank(x.rank, sorted[i].rank) > 0}
      at == IF before = {} THEN Len(sorted) + 1
            ELSE CHOOSE i \in before : \A j \in before : i <= j
  IN SubSeq(sorted, 1, at - 1) \o <<x>> \o SubSeq(sorted, at, Len(sorted))
RECURSIVE SortResults(_)
SortResults(rs) ==
  IF rs = <<>> THEN <<>>
  ELSE InsertResult(SortResults(SubSeq(rs, 1, Len(rs) - 1)), rs[Len(rs)])

\* [d.pop(),d.pop(),d.pop(),d.pop(),d.pop()]: any five of the cards left
FiveOf(d) == {h \in SUBSET d : Cardinality(h) = 5}
\* the hands dealt to n participants in turn from d
RECURSIVE Deals(_, _)
Deals(n, d) ==
  IF n = 0 THEN {<<>>}
  ELSE UNION {{<<h>> \o rest : rest \in Deals(n - 1, d \ h)} : h \in FiveOf(d)}

\* rankHand of every hand the model's deck can deal, computed once
HandRanks == [h \in FiveOf(deck(PokerDeckSize)) |-> rankHand(h)]

PokerRejected(c, bet) ==
  \/ ~Has(sockets, c)
  \/ ~Has(users, sockets[c])
  \/ users[sockets[c]] < bet

\* mutant: the filter compares with > instead of >=
ParticipantsStrict(bet) ==
  LET eligible == SelectSeq(online, LAMBDA e : users[e.username] > bet)
  IN [i \in DOMAIN eligible |-> eligible[i].username]

\* Object.keys(online).filter(u => users[u].balance >= bet)
Participants(bet) ==
  LET eligible == SelectSeq(online, LAMBDA e : users[e.username] >= bet)
  IN [i \in DOMAIN eligible |-> eligible[i].username]

\* participants.forEach(u => users[u].balance -= bet)
DebitAll(m, P, bet) == [u \in DOMAIN m |-> IF u \in P THEN m[u] - bet ELSE m[u]]
\* users[winner].balance += bet * participants.length
CreditPot(m, winner, bet, n) == [m EXCEPT ![winner] = m[winner] + bet * n]

\* socket.on("poker_start")
PokerStart(c, bet) ==
  /\ ~crashed
  /\ c \in conns
  /\ rounds < MaxRounds
  /\ LET participants == IF PokerRejected(c, bet) THEN <<>> ELSE Participants(bet)
         n == Len(participants)
         debited == DebitAll(users, SeqRange(participants), bet)
     IN IF n = 0
        THEN /\ ev' = [op |-> "poker_start", c |-> c, bet |-> bet, ok |-> FALSE,
                       participants |-> participants, results |-> <<>>]
             /\ UNCHANGED <<users, crashed, rounds>>
        ELSE IF 5 * n > PokerDeckSize
        THEN \* d.pop() returns undefined and rankHand throws on it
             /\ ev' = [op |-> "poker_start", c |-> c, bet |-> bet, ok |-> FALSE,
                       participants |-> participants, results |-> <<>>]
             /\ users' = debited
             /\ crashed' = TRUE
             /\ UNCHANGED rounds
        ELSE \E hands \in Deals(n, deck(PokerDeckSize)) :
               LET sorted == SortResults([i \in 1..n |->
                               [user |-> participants[i], hand |-> hands[i],
                                rank |-> HandRanks[hands[i]]]])
               IN /\ ev' = [op |-> "poker_start", c |-> c, bet |-> bet, ok |-> TRUE,
                             participants |-> participants, results |-> sorted]
                  /\ users' = CreditPot(debited, sorted[1].user, bet, n)
                  /\ rounds' = rounds + 1
                  /\ UNCHANGED crashed
  /\ Capped(users')
  /\ UNCHANGED <<conns, sockets, online, giveaways, now, bjStates>>
  /\ UNCHANGED <<trades, tradeCounter, maxGid>>
  /\ Emit(ev'.ok)

(* ---------------------------- specifications --------------------------- *)
\* users.json as loaded at start-up (line 24): alice and bob exist, with the
\* balances an earlier run saved
InitWith(registered) ==
  /\ users \in [registered -> 0..MaxInitBalance]
  /\ conns = {}
  /\ sockets = EmptyMap
  /\ online = <<>>
  /\ giveaways = <<>>
  /\ now = 0
  /\ bjStates = [c \in Conns |-> EmptyMap]
  /\ rounds = 0
  /\ crashed = FALSE
  /\ ev = [op |-> "init"]
  /\ trades = [c \in Conns |-> EmptyMap]
  /\ tradeCounter = [c \in Conns |-> 1]
  /\ maxGid = 0
  /\ bcast = [sent |-> FALSE]

Init == InitWith(Names)
\* a users.json that holds alice alone: line 28 adds bob only with alice
InitSolo == InitWith({"alice"})

Recipients == Names \cup {Guest}

NextLedger ==
  \/ \E c \in Conns : Connect(c)
  \/ \E c \in Conns, u \in Names \cup {Guest} : Auth(c, u)
  \/ \E c \in Conns : Disconnect(c)
  \/ \E c \in Conns, to \in Recipients, a \in AmountInputs : SendCoins(c, to, a)

SpecLedger == Init /\ [][NextLedger]_vars

FirstConn == {c \in Conns : \A d \in Conns : c <= d}

\* blackjack played over one socket, with every bet a client may send
NextBJ ==
  \/ \E c \in FirstConn : Connect(c)
  \/ \E c \in FirstConn, u \in Names : Auth(c, u)
  \/ \E c \in FirstConn, bet \in Bets : BjStart(c, bet)
  \/ \E c \in FirstConn, a \in Actions : BjAction(c, a)

SpecBJ == InitSolo /\ [][NextBJ]_vars

\* blackjack played by one user over every socket: hands of the largest bet,
\* dealt from the first TableDeckSize cards, started and stood on
TableDeckSize == 4

NextTables ==
  \/ \E c \in Conns : Connect(c)
  \/ \E c \in Conns, u \in Names : Auth(c, u)
  \/ \E c \in Conns : BjStartFrom(c, MaxBet, deck(TableDeckSize))
  \/ \E c \in Conns : BjAction(c, "stand")

SpecTables == InitSolo /\ [][NextTables]_vars
\* giveaways opened, entered and closed over one socket, which authenticates
\* as one user after another
NextGive ==
  \/ \E c \in FirstConn : Connect(c)
  \/ \E c \in FirstConn, u \in Names : Auth(c, u)
  \/ \E c \in FirstConn : Disconnect(c)
  \/ \E c \in FirstConn, text \in ChatTexts : Chat(c, text)
  \/ Tick
  \/ AdvanceClock

SpecGive == Init /\ [][NextGive]_vars

\* every socket connected and authenticated, socket i as the i-th user of
\* UserOrder: the state SpecLedger reaches by Connect and Auth in turn
UserOrder == <<"alice", "bob">>
InitTable ==
  /\ users \in [Names -> 0..MaxInitBalance]
  /\ conns = {c \in Conns : c <= Len(UserOrder)}
  /\ sockets = [c \in conns |-> UserOrder[c]]
  /\ online = [c \in 1..Cardinality(conns) |-> [id |-> c, username |-> UserOrder[c]]]
  /\ giveaways = <<>>
  /\ now = 0
  /\ bjStates = [c \in Conns |-> EmptyMap]
  /\ rounds = 0
  /\ crashed = FALSE
  /\ ev = [op |-> "auth"]
  /\ trades = [c \in Conns |-> EmptyMap]
  /\ tradeCounter = [c \in Conns |-> 1]
  /\ maxGid = 0
  /\ bcast = [sent |-> TRUE, state |-> Snapshot(users, online, giveaways)]

\* poker rounds among the users online
NextPoker ==
  \/ \E c \in Conns : Disconnect(c)
  \/ \E c \in Conns, bet \in Bets : PokerStart(c, bet)

SpecPoker == InitTable /\ [][NextPoker]_vars

\* trades opened, accepted and declined by one user over every socket
NextTrade ==
  \/ \E c \in Conns : Connect(c)
  \/ \E c \in Conns, u \in Names : Auth(c, u)
  \/ \E c \in Conns : Disconnect(c)
  \/ \E c \in Conns, to \in Recipients : TradeStart(c, to)
  \/ \E c \in Conns, id \in TradeIds : TradeAccept(c, id)
  \/ \E c \in Conns, id \in TradeIds : TradeDecline(c, id)

SpecTrade == InitSolo /\ [][NextTrade]_vars

\* giveaways under a timer that keeps firing and a clock that keeps
\* advancing (setInterval, line 281): a giveaway is opened only while the
\* clock of the model can still pass its closing age
NextGiveFair ==
  \/ \E c \in FirstConn : Connect(c)
  \/ \E c \in FirstConn, u \in Names : Auth(c, u)
  \/ \E c \in FirstConn : Disconnect(c)
  \/ \E c \in FirstConn, text \in ChatTexts :
        /\ text.kind = "giveaway" => now + CloseAfterMs < ClockStep * MaxClockSteps
        /\ Chat(c, text)
  \/ Tick
  \/ AdvanceClock

SpecGiveFair ==
  Init /\ [][NextGiveFair]_vars /\ WF_vars(Tick) /\ WF_vars(AdvanceClock)

\* one socket that sends any chat payload, with the timer running
NextChat ==
  \/ \E c \in FirstConn : Connect(c)
  \/ \E c \in FirstConn, u \in Names : Auth(c, u)
  \/ \E c \in FirstConn, text \in ChatInputs : Chat(c, text)
  \/ Tick
  \/ AdvanceClock

SpecChat == Init /\ [][NextChat]_vars

\* coins of the largest amount sent, and giveaways of a positive amount
\* opened, entered and closed, over one socket
EscrowTexts ==
  {[kind |-> "giveaway", amt |-> Num(a)] : a \in 1..MaxAmount}
    \cup {[kind |-> "enter", amt |-> NaN]}

NextEscrow ==
  \/ \E c \in FirstConn : Connect(c)
  \/ \E c \in FirstConn, u \in Names : Auth(c, u)
  \/ \E c \in FirstConn : Disconnect(c)
  \/ \E c \in FirstConn, text \in EscrowTexts : Chat(c, text)
  \/ \E c \in FirstConn, to \in Names : SendCoins(c, to, Num(MaxAmount))
  \/ Tick
  \/ AdvanceClock

SpecEscrow == Init /\ [][NextEscrow]_vars

(* ------------------------------- claims -------------------------------- *)

\* C1: every user's balance is >= 0 in every reachable state, whatever integer
\* bet or amount the clients send.
C1_BalanceNeverNegative == \A u \in DOMAIN users : users[u] >= 0

\* C2: a send_coins leaves balance(sender) + balance(recipient) unchanged
\* (also when sender = recipient) and every other balance unchanged; when the
\* sender is unauthenticated, the amount is missing or <= 0, the recipient is
\* unknown or the sender's balance is below the amount, no balance changes.
C2_SendCoinsConserves ==
  [][ev'.op = "send_coins" =>
       LET c == ev'.c
           to == ev'.to
           amount == ev'.amount
       IN IF \/ ~Has(sockets, c)
             \/ amount.nan
             \/ amount.v <= 0
             \/ ~Has(users, to)
             \/ users[sockets[c]] < amount.v
          THEN users' = users
          ELSE LET from == sockets[c]
               IN /\ DOMAIN users' = DOMAIN users
                  /\ \A u \in DOMAIN users \ {from, to} : users'[u] = users[u]
                  /\ IF from = to
                     THEN users'[from] = users[from]
                     ELSE /\ users'[from] + users'[to] = users[from] + users[to]
                          /\ users'[to] = users[to] + amount.v]_vars

\* C2 witness: a transfer to oneself was carried out
C2_Witness ==
  /\ ev.op = "send_coins"
  /\ ev.ok
  /\ Has(sockets, ev.c)
  /\ sockets[ev.c] = ev.to

\* C3: bj_start with bet <= 0, or with balance < bet, changes no balance and
\* creates no BlackjackState.
C3_BjStartRejectsBadBet ==
  [][(/\ ev'.op = "bj_start"
      /\ \/ ev'.bet <= 0
         \/ Has(sockets, ev'.c) /\ users[sockets[ev'.c]] < ev'.bet)
       => users' = users /\ bjStates' = bjStates]_vars

\* C4: bj_start with an accepted bet b > 0 debits b; a stand on a hand of bet
\* b > 0 that is not bust makes the dealer draw until the dealer's value is
\* >= 17, credits 2b when the dealer is bust or the player's value is higher,
\* b when the values are equal and nothing otherwise, and destroys the state.
C4_StandSettles ==
  [][/\ (ev'.op = "bj_start" /\ ev'.ok /\ ev'.bet > 0)
          => users' = [users EXCEPT ![sockets[ev'.c]] = @ - ev'.bet]
     /\ (/\ ev'.op = "bj_action"
         /\ ev'.action = "stand"
         /\ Has(sockets, ev'.c)
         /\ Has(bjStates[ev'.c], sockets[ev'.c])
         /\ bjStates[ev'.c][sockets[ev'.c]].bet > 0
         /\ valueHand(bjStates[ev'.c][sockets[ev'.c]].player) <= 21)
          => LET u == sockets[ev'.c]
                 s == bjStates[ev'.c][u]
                 drawn == ev'.dealer \ s.dealer
                 pv == valueHand(s.player)
                 dv == valueHand(ev'.dealer)
                 b == s.bet
             IN /\ ~crashed'
                /\ ev'.ok
                /\ s.dealer \subseteq ev'.dealer
                /\ drawn \subseteq s.deck
                /\ dv >= 17
                /\ valueHand(s.dealer) >= 17 => drawn = {}
                /\ drawn # {} => \E last \in drawn : valueHand(ev'.dealer \ {last}) < 17
                /\ users' = [users EXCEPT ![u] =
                     IF dv > 21 \/ pv > dv THEN @ + 2 * b
                     ELSE IF pv = dv THEN @ + b
                     ELSE @]
                /\ ~Has(bjStates'[ev'.c], u)]_vars

\* C4 witness: a stand on a live hand of positive bet, the dealer drew and
\* the hand was a push
C4_Witness ==
  /\ ev.op = "bj_action"
  /\ ev.action = "stand"
  /\ ev.ok
  /\ ev.hand.bet > 0
  /\ valueHand(ev.hand.player) <= 21
  /\ Cardinality(ev.dealer) > 2
  /\ valueHand(ev.dealer) = valueHand(ev.hand.player)

\* C5: once a hit has made the player's value exceed 21 the hand is SETTLED,
\* and a later bj_action hit draws no card and changes neither the hand, the
\* deck nor any balance.
C5_SettledIsTerminal ==
  [][/\ \A c \in Conns : \A u \in DOMAIN bjStates'[c] :
          valueHand(bjStates'[c][u].player) > 21 => bjStates'[c][u].done
     /\ (/\ ev'.op = "bj_action"
         /\ ev'.action = "hit"
         /\ Has(sockets, ev'.c)
         /\ Has(bjStates[ev'.c], sockets[ev'.c])
         /\ bjStates[ev'.c][sockets[ev'.c]].done)
          => bjStates' = bjStates /\ users' = users]_vars

\* C6: a user has at most one live (not SETTLED) BlackjackState, counted
\* over all connections authenticated as that user.
LiveHands(u) == {c \in conns : Has(bjStates[c], u) /\ ~bjStates[c][u].done}
C6_OneLiveHandPerUser == \A u \in DOMAIN users : Cardinality(LiveHands(u)) <= 1

\* C7: an accepted poker_start with bet > 0 plays the round among exactly the
\* online users whose balance >= bet; one of these n participants ends
\* bet*(n-1) up, every other participant bet down, nobody else's balance
\* changes, and the sum of all balances is unchanged.
C7_PokerSettles ==
  [][(/\ ev'.op = "poker_start"
      /\ ev'.bet > 0
      /\ Has(sockets, ev'.c)
      /\ users[sockets[ev'.c]] >= ev'.bet)
       => LET bet == ev'.bet
              P == {u \in OnlineNames : users[u] >= bet}
              n == Cardinality(P)
          IN /\ SeqRange(ev'.participants) = P
             /\ Len(ev'.participants) = n
             /\ ev'.ok = (n > 0)
             /\ ~crashed'
             /\ DOMAIN users' = DOMAIN users
             /\ \A u \in DOMAIN users \ P : users'[u] = users[u]
             /\ n > 0 => \E w \in P :
                  /\ users'[w] = users[w] + bet * (n - 1)
                  /\ \A u \in P \ {w} : users'[u] = users[u] - bet
             /\ TotalBalance(users') = TotalBalance(users)]_vars

\* C7 witness: a round with a positive bet among two participants
C7_Witness ==
  /\ ev.op = "poker_start"
  /\ ev.ok
  /\ ev.bet > 0
  /\ Len(ev.participants) = 2

\* The comparator of the specification (4.2): category first, then the
\* tiebreak sequence compared numerically: the top card of a straight, else
\* the values by how often they repeat and then descending.
RECURSIVE ByCountThenValue(_, _)
ByCountThenValue(cnt, keys) ==
  IF keys = {} THEN <<>>
  ELSE LET k == CHOOSE k \in keys : \A j \in keys :
                  \/ cnt[k] > cnt[j]
                  \/ cnt[k] = cnt[j] /\ order(k) >= order(j)
       IN <<order(k)>> \o ByCountThenValue(cnt, keys \ {k})

SpecStrength(hand) ==
  LET vals == ValsDesc(hand)
      cnt == counts(hand)
      flush == Cardinality({c.s : c \in hand}) = 1
      straight == vals[1] - vals[5] = 4 /\ Cardinality(DOMAIN cnt) = 5
      most == FreqDesc(cnt, DOMAIN cnt)
      category ==
        IF straight /\ flush THEN 9
        ELSE IF most[1] = 4 THEN 8
        ELSE IF most[1] = 3 /\ most[2] = 2 THEN 7
        ELSE IF flush THEN 6
        ELSE IF straight THEN 5
        ELSE IF most[1] = 3 THEN 4
        ELSE IF most[1] = 2 /\ most[2] = 2 THEN 3
        ELSE IF most[1] = 2 THEN 2
        ELSE 1
  IN <<category>> \o (IF straight THEN <<vals[1]>> ELSE ByCountThenValue(cnt, DOMAIN cnt))

RECURSIVE LexGreater(_, _)
LexGreater(a, b) ==
  IF a = <<>> \/ b = <<>> THEN a # <<>>
  ELSE IF Head(a) # Head(b) THEN Head(a) > Head(b)
  ELSE LexGreater(Tail(a), Tail(b))

\* C8: the pot goes to a participant whose hand is maximal: no participant
\* of the round holds a hand strictly stronger than the winner's.
C8_WinnerHoldsBestHand ==
  (ev.op = "poker_start" /\ ev.ok /\ ev.bet > 0) =>
     \A i \in DOMAIN ev.results :
        ~LexGreater(SpecStrength(ev.results[i].hand), SpecStrength(ev.results[1].hand))

\* C9: with one or more giveaways queued, an accepted /enter appends the
\* user to the entrants of the head giveaway and leaves the giveaways behind
\* the head as they were.
C9_EnterGoesToHead ==
  [][(ev'.op = "chat" /\ ev'.kind = "enter" /\ ev'.ok /\ Len(giveaways) >= 1)
       => giveaways' = [giveaways EXCEPT ![1].entrants = Append(@, ev'.from)]]_vars

\* C10: a scheduler tick that finds the head giveaway g due (older than 45 s
\* or with 5 entrants) credits g.amount to exactly one user, the host when
\* nobody entered and else one of the entrants, changes no other balance and
\* removes g from the head of the queue.
C10_TickPaysOneUser ==
  [][(ev'.op = "tick" /\ Len(giveaways) > 0 /\ Closing(giveaways[1], now))
       => LET g == giveaways[1]
          IN /\ \E w \in Payees(g) :
                  /\ Has(users, w)
                  /\ users' = [users EXCEPT ![w] = @ + g.amount]
             /\ giveaways' = Tail(giveaways)]_vars

\* C11: with the timer firing and time advancing, every giveaway that is
\* queued is eventually removed from the queue (a removal is a closing tick,
\* which credits its amount): none stays queued forever.
Queued(i) == \E k \in DOMAIN giveaways : giveaways[k].id = i
C11_GiveawayEventuallyCloses ==
  \A i \in 1..MaxGiveawayId : Queued(i) ~> ~Queued(i)

\* C12: a scheduler tick removes the head giveaway, and nothing else, if and
\* only if the head is older than 45 s or has 5 entrants: the giveaways
\* behind the head keep their entrants, amount and order, and a tick that
\* finds no head due changes neither the queue nor any balance.
C12_TickIsFifo ==
  [][ev'.op = "tick" =>
       IF Len(giveaways) > 0 /\ Closing(giveaways[1], now)
       THEN giveaways' = Tail(giveaways)
       ELSE giveaways' = giveaways /\ users' = users]_vars

\* C13: every giveaway is created with an id strictly greater than the id of
\* every giveaway created before it, also after the queue has become empty.
C13_GiveawayIdsMonotonic ==
  [][(ev'.op = "chat" /\ ev'.kind = "giveaway" /\ ev'.ok)
       => giveaways'[Len(giveaways')].id > maxGid]_vars

\* C14: a trade's status only moves from pending to accepted or declined;
\* a trade_accept or trade_decline for an id that is unknown or no longer
\* pending changes no status and emits no notice.
C14_TradeStatusTerminal ==
  [][/\ \A c \in Conns : \A id \in DOMAIN trades[c] \cap DOMAIN trades'[c] :
          trades'[c][id].status # trades[c][id].status
            => trades[c][id].status = "pending"
     /\ (/\ ev'.op \in {"trade_accept", "trade_decline"}
         /\ \/ ~Has(trades[ev'.c], ev'.id)
            \/ trades[ev'.c][ev'.id].status # "pending")
          => trades' = trades /\ ~ev'.notice]_vars

\* C15: a trade_start that succeeds creates a trade whose id differs from
\* the id of every trade created before it, on whichever connection.
C15_TradeIdsUnique ==
  [][(ev'.op = "trade_start" /\ ev'.ok)
       => \A c \in conns : ~Has(trades[c], ev'.id)]_vars

\* C16: a user is in the online set if and only if some live connection is
\* bound to that user, and the online entry of a user names such a connection.
BoundTo(u) == {c \in conns : Has(sockets, c) /\ sockets[c] = u}
C16_RegistryConsistent ==
  /\ \A u \in DOMAIN users : (u \in OnlineNames) <=> (BoundTo(u) # {})
  /\ \A i \in DOMAIN online : online[i].id \in BoundTo(online[i].username)

\* C17: every event that changes a balance, the online set or the giveaway
\* queue (the entrants of a queued giveaway included) emits a state
\* broadcast whose content is the committed state.
C17_BroadcastAfterChange ==
  [][(users' # users \/ online' # online \/ giveaways' # giveaways)
       => /\ bcast'.sent
          /\ bcast'.state = Snapshot(users', online', giveaways')]_vars

\* C18: no sequence of client events and timer ticks ends the process: no
\* handler and no timer callback lets an exception escape.
C18_ServerNeverAborts == ~crashed

\* C19: a chat sent over a connection that is not authenticated changes no
\* balance and no giveaway (its entrants included), and every entrant of a
\* queued giveaway is a registered user.
C19_UnauthenticatedChangesNothing ==
  [][/\ (ev'.op = "chat" /\ ev'.from = Guest)
          => users' = users /\ giveaways' = giveaways
     /\ \A k \in DOMAIN giveaways' :
          SeqRange(giveaways'[k].entrants) \subseteq DOMAIN users']_vars

\* C20: over /giveaway, /enter, timer tick and send_coins steps, the sum of
\* all balances plus the amounts of all queued giveaways is the same after
\* each step as before it.
RECURSIVE QueuedAmount(_)
QueuedAmount(q) == IF q = <<>> THEN 0 ELSE Head(q).amount + QueuedAmount(Tail(q))
C20_EscrowConserved ==
  [][TotalBalance(users') + QueuedAmount(giveaways')
       = TotalBalance(users) + QueuedAmount(giveaways)]_vars

\* C20 witness: a tick closed and paid out a giveaway while another one is
\* still held in the queue
C20_Witness ==
  /\ ev.op = "tick"
  /\ ev.closed
  /\ Len(giveaways) > 0
====
